---- MODULE Spec2Model ----
(***************************************************************************)
(* State-machine model of src/index.tsx (the App component): the workspace *)
(* state held by useState, the handlers that change it, and the chain run  *)
(* started by handleRunChain.                                              *)
(*                                                                         *)
(* React state is modelled by two copies of every useState cell:           *)
(*   workspace / activeTab   the state with every queued updater applied,  *)
(*   rendered / renderedTab  the state of the last committed render, which *)
(*                           is what the handlers' closures read when the  *)
(*                           source says `workspace.x` or `activeTab`.     *)
(* A handler called from a DOM event runs its updaters in the synchronous  *)
(* lane, so they reach both copies at once; an updater queued from an      *)
(* async continuation (after an await, or in a FileReader callback)        *)
(* reaches `workspace` at once and `rendered` at the next Render.          *)
(*                                                                         *)
(* Objects that the source shares by reference live in heaps: agentObjs    *)
(* (the agent definitions) and logEntries (the run-log entries); arrays    *)
(* hold references into them.                                              *)
(*                                                                         *)
(* Units: latencies are integers, totalLatency and metrics.latency in      *)
(* milliseconds, a log entry's latency in hundredths of a second (the      *)
(* value of the string toFixed(2) produces); temperatures are in tenths.   *)
(***************************************************************************)
EXTENDS Integers, Sequences, FiniteSets, TLC

VARIABLES
    workspace,      \* useState cell of line 105, all updaters applied
    rendered,       \* the workspace of the last committed render
    activeTab,      \* useState cell of line 16, all updates applied
    renderedTab,    \* the activeTab of the last committed render
    ocrStatus,      \* useState cell of line 17
    agentObjs,      \* heap of the agent definition objects
    logEntries,     \* heap of the run-log entry objects
    runs,           \* the activations of handleRunChain
    uploads,        \* file reads / PDF ingestions in flight
    nRuns,          \* number of runs started so far
    budget          \* user edits and file selections still to come

vars == <<workspace, rendered, activeTab, renderedTab, ocrStatus, agentObjs,
          logEntries, runs, uploads, nRuns, budget>>

----------------------------------------------------------------------------
(* Bounds of the model *)

MaxRuns == 2
MaxEdits == 1

----------------------------------------------------------------------------
(* Input domains *)

Models == {"gemini-2.5-flash", "gemini-2.5-pro"}

Tabs == {"ingestion", "agents", "run", "dashboard"}

\* How an invocation of generateContent can resolve: the response, with or
\* without a text, and the wall-clock milliseconds it took.
Resolutions ==
    {[response |-> [text |-> "r1"], elapsed |-> 16],
     [response |-> [finishReason |-> "STOP"], elapsed |-> 4]}

\* Messages of the errors generateContent rejects with.
ErrMsgs == {"API error"}

\* The string s repeated n times.
RECURSIVE Repeat(_, _)
Repeat(s, n) ==
    IF n = 0 THEN ""
    ELSE LET half == Repeat(s, n \div 2)
         IN  half \o half \o (IF n % 2 = 1 THEN s ELSE "")

\* The lengths of the long texts a reviewer pastes: around the auto-advance
\* threshold of line 265 (the initial text has 8 characters), around the
\* excerpt length of line 272, and around the thresholds of lines 448-450.
LongTextLengths == {208, 209, 1000, 1001, 5000, 5001}

LongTexts == {Repeat("x", n) : n \in LongTextLengths}

\* The short texts the paste textarea can hold after a change event.
PastedTexts == {"", "pasted text"}

\* pdf.numPages of the PDF files selected.
PageCounts == {1, 2}
FileTexts == {"file text"}
\* The text Tesseract recognizes on page i of a PDF: one text per page, all
\* different.
PageText(i) == "page " \o ToString(i)
CustomInputs == {"custom input"}
HandoffTexts == {"edited"}
PromptTexts == {"custom prompt"}
Temperatures == {7}
TokenCounts == {512}

\* error: null is the empty sequence, a message m is <<m>>.
Null == <<>>

----------------------------------------------------------------------------
(* Initial values *)

initialAgents ==
    << [name |-> "RequirementExtractor",
        description |-> "Extracts structured requirements from the guidance.",
        model |-> "gemini-2.5-flash",
        params |-> [temperature |-> 2, maxOutputTokens |-> 2000],
        system_prompt |-> "ROLE: Requirement Extractor."],
       [name |-> "GapAnalyzer",
        description |-> "Compares provided dossier/evidence against extracted requirements to find gaps.",
        model |-> "gemini-2.5-pro",
        params |-> [temperature |-> 2, maxOutputTokens |-> 2000],
        system_prompt |-> "ROLE: Gap Analyzer."],
       [name |-> "EvidenceMapper",
        description |-> "Maps documents/pages to requirements with traceability links.",
        model |-> "gemini-2.5-flash",
        params |-> [temperature |-> 2, maxOutputTokens |-> 1800],
        system_prompt |-> "ROLE: Evidence Mapper."],
       [name |-> "ChecklistFormatter",
        description |-> "Produces a reviewer-ready checklist and summary.",
        model |-> "gemini-2.5-flash",
        params |-> [temperature |-> 1, maxOutputTokens |-> 2200],
        system_prompt |-> "ROLE: Checklist Formatter."] >>

NumAgents == Len(initialAgents)

\* The array `initialAgents` as stored in the state: references to its objects.
initialAgentRefs == [i \in 1..NumAgents |-> i]

\* Stand-in for the checklist text of lines 68-103.
initialGuidanceText == "guidance"

initialWorkspace ==
    [rawText |-> initialGuidanceText,
     agents |-> initialAgentRefs,
     agentsRunConfig |-> initialAgentRefs,
     runLog |-> <<>>,
     metrics |-> [ocr_pages |-> 0, chars |-> Len(initialGuidanceText),
                  agents_run |-> 0, latency |-> 0],
     isRunning |-> FALSE,
     error |-> Null]

\* The locals of an activation of handleRunChain that has not started or
\* whose frame is gone.  Besides the locals of the source (agents is the
\* array iterated, k the position in it), a frame records what the run has
\* sent and received: calls, the requests made, in order; created, the
\* output of each entry when it was created; received, the responses of the
\* resolved invocations; elapsed, the milliseconds each of them took;
\* atStart, the agent definitions as they were when the run started.
IdleRun ==
    [pc |-> "idle", agents |-> <<>>, k |-> 0, baseInput |-> "",
     currentInput |-> "", totalLatency |-> 0, newRunLog |-> <<>>,
     calls |-> <<>>, created |-> <<>>, received |-> <<>>, elapsed |-> <<>>,
     atStart |-> <<>>]

\* What a session still has to come: the chain runs it may start (runs),
\* whether the reviewer types initial inputs of their own (typed), whether
\* the texts pasted include the long ones (long), and its edits by kind:
\* edits of the run configuration, handoff edits, pastes, and file
\* selections.
NoEdits ==
    [runs |-> 1, typed |-> FALSE, long |-> FALSE,
     config |-> 0, handoff |-> 0, pastes |-> 0, files |-> 0]

\* A session makes at most MaxEdits edits of a kind.  A session with
\* handoff edits starts up to MaxRuns runs, with typed initial inputs; the
\* others start one run on the ingested text.
ChainBudget ==
    [NoEdits EXCEPT !.runs = MaxRuns, !.typed = TRUE, !.handoff = MaxEdits]
RegistryBudget == [NoEdits EXCEPT !.config = MaxEdits]
\* An ingestion session makes MaxEdits ingestions, pastes or file
\* selections, and starts one run.
IngestBudgets ==
    {[NoEdits EXCEPT !.files = f, !.pastes = MaxEdits - f] : f \in 0..MaxEdits}

\* An upload session makes MaxEdits pastes, of long texts too, and MaxEdits
\* file selections, and starts no run.
UploadBudget ==
    [NoEdits EXCEPT !.runs = 0, !.long = TRUE,
                    !.pastes = MaxEdits, !.files = MaxEdits]

\* A review session pastes texts, long ones too, runs the chain on them and
\* edits the handoffs.
ReviewBudget ==
    [NoEdits EXCEPT !.long = TRUE, !.handoff = MaxEdits, !.pastes = MaxEdits]

Budgets ==
    {ChainBudget, RegistryBudget, UploadBudget, ReviewBudget}
    \cup IngestBudgets

\* The state after the first render of App, but for the edit budget.
Constructed ==
    /\ workspace = initialWorkspace
    /\ rendered = initialWorkspace
    /\ activeTab = "ingestion"
    /\ renderedTab = "ingestion"
    /\ ocrStatus = ""
    /\ agentObjs = initialAgents
    /\ logEntries = <<>>
    /\ runs = [r \in 1..MaxRuns |-> IdleRun]
    /\ uploads = <<>>
    /\ nRuns = 0

Init ==
    /\ Constructed
    /\ budget \in Budgets

----------------------------------------------------------------------------
(* Pure helpers *)

\* Mutant of OutputText: the missing text converted to a string as it is.
OutputTextUndefined(response) ==
    IF "text" \in DOMAIN response THEN response.text ELSE "undefined"

\* response.text ?? ''  (line 145)
OutputText(response) ==
    IF "text" \in DOMAIN response THEN response.text ELSE ""

\* latency.toFixed(2) (line 150): milliseconds rounded to the nearest
\* hundredth of a second.
ToFixed2(latency) == (latency + 5) \div 10

\* Mutant of Request: built from the agent definitions of initialAgents.
RequestInitial(agentConfig, currentInput) ==
    [agentConfig |-> agentConfig,
     model |-> initialAgents[agentConfig].model,
     input |-> currentInput,
     systemInstruction |-> initialAgents[agentConfig].system_prompt,
     temperature |-> initialAgents[agentConfig].params.temperature,
     maxOutputTokens |-> initialAgents[agentConfig].params.maxOutputTokens]

\* The argument of ai.models.generateContent (lines 132-140), built from the
\* agent object as it is at the moment of the call; agentConfig is kept to
\* tell which agent the call is for.
Request(agentConfig, currentInput) ==
    [agentConfig |-> agentConfig,
     model |-> agentObjs[agentConfig].model,
     input |-> currentInput,
     systemInstruction |-> agentObjs[agentConfig].system_prompt,
     temperature |-> agentObjs[agentConfig].params.temperature,
     maxOutputTokens |-> agentObjs[agentConfig].params.maxOutputTokens]

\* Mutant of Accumulate: `=` for `+=`.
AccumulateOverwrite(totalLatency, latency) == latency

\* totalLatency += latency (line 143)
Accumulate(totalLatency, latency) == totalLatency + latency

\* Mutant of NextInput: the assignment of line 155 left out.
NextInputStale(currentInput, outputText) == currentInput

\* currentInput = outputText (line 155)
NextInput(currentInput, outputText) == outputText

\* The entry objects an array of references holds.
Refs(array) == {array[i] : i \in DOMAIN array}

\* The log entries still referenced from the state or from a run's frame;
\* the others are garbage.
Collect(heap, ws, rd, rs) ==
    LET live == Refs(ws.runLog) \cup Refs(rd.runLog)
                \cup UNION {Refs(rs[q].newRunLog) : q \in DOMAIN rs}
    IN  [id \in DOMAIN heap \cap live |-> heap[id]]

----------------------------------------------------------------------------
(* The updater functions passed to setWorkspace *)

\* Mutant of StartUpdater: runLog not reset.
StartUpdaterKeepsLog(prev) ==
    [prev EXCEPT !.isRunning = TRUE, !.error = Null]

\* line 118
StartUpdater(prev) ==
    [prev EXCEPT !.isRunning = TRUE, !.error = Null, !.runLog = <<>>]

\* Mutant of AppendUpdater: the closure's workspace spread instead of prev.
AppendUpdaterStale(prev, newRunLog) ==
    [rendered EXCEPT !.runLog = newRunLog]

\* line 154
AppendUpdater(prev, newRunLog) ==
    [prev EXCEPT !.runLog = newRunLog]

\* Mutant of ErrorUpdater: the error cleared instead of set.
ErrorUpdaterClears(prev, message) ==
    [prev EXCEPT !.error = Null]

\* line 160
ErrorUpdater(prev, message) ==
    [prev EXCEPT !.error = <<message>>]

\* Mutant of FinallyUpdater: agents_run taken from the closure's
\* workspace.runLog instead of newRunLog.
FinallyUpdaterStaleLog(prev, newRunLog, totalLatency) ==
    [prev EXCEPT !.isRunning = FALSE,
                 !.metrics.agents_run = Len(rendered.runLog),
                 !.metrics.latency = totalLatency]

\* Mutant of FinallyUpdater: the closure's workspace.metrics spread instead
\* of prev.metrics.
FinallyUpdaterStaleMetrics(prev, newRunLog, totalLatency) ==
    [prev EXCEPT !.isRunning = FALSE,
                 !.metrics = [rendered.metrics EXCEPT
                                !.agents_run = Len(newRunLog),
                                !.latency = totalLatency]]

\* Mutant of FinallyUpdater: the failed invocation counted in agents_run.
FinallyUpdaterCountsFailed(prev, newRunLog, totalLatency) ==
    [prev EXCEPT !.isRunning = FALSE,
                 !.metrics.agents_run =
                     Len(newRunLog) + (IF prev.error # Null THEN 1 ELSE 0),
                 !.metrics.latency = totalLatency]

\* Mutant of FinallyUpdater: isRunning not reset.
FinallyUpdaterKeepsRunning(prev, newRunLog, totalLatency) ==
    [prev EXCEPT !.metrics.agents_run = Len(newRunLog),
                 !.metrics.latency = totalLatency]

\* lines 162-166
FinallyUpdater(prev, newRunLog, totalLatency) ==
    [prev EXCEPT !.isRunning = FALSE,
                 !.metrics.agents_run = Len(newRunLog),
                 !.metrics.latency = totalLatency]

\* line 178
RunConfigUpdater(p, newConfig) ==
    [p EXCEPT !.agentsRunConfig = newConfig]

\* line 184
HandoffUpdater(p, newRunLog) ==
    [p EXCEPT !.runLog = newRunLog]

\* lines 197-201
TextFileUpdater(p, text) ==
    [p EXCEPT !.rawText = text,
              !.metrics.chars = Len(text),
              !.metrics.ocr_pages = 0]

\* Mutant of PdfUpdater: ocr_pages left as it was.
PdfUpdaterKeepsPages(p, fullText, numPages) ==
    [p EXCEPT !.rawText = fullText,
              !.metrics.chars = Len(fullText)]

\* lines 243-247
PdfUpdater(p, fullText, numPages) ==
    [p EXCEPT !.rawText = fullText,
              !.metrics.chars = Len(fullText),
              !.metrics.ocr_pages = numPages]

\* lines 257-261
RawTextUpdater(p, newText) ==
    [p EXCEPT !.rawText = newText,
              !.metrics.chars = Len(newText)]

----------------------------------------------------------------------------
(* React: commit of a render *)

\* The pending updates are rendered and committed: from now on the handlers
\* close over the current state.
Render ==
    /\ \/ rendered # workspace
       \/ renderedTab # activeTab
    /\ rendered' = workspace
    /\ renderedTab' = activeTab
    /\ logEntries' = Collect(logEntries, workspace, workspace, runs)
    /\ UNCHANGED <<workspace, activeTab, ocrStatus, agentObjs, runs, uploads,
                   nRuns, budget>>

\* onClick of a nav button (line 515)
setActiveTab(key) ==
    /\ key \in Tabs
    /\ key # renderedTab \/ key # activeTab
    /\ activeTab' = key
    /\ renderedTab' = key
    /\ UNCHANGED <<workspace, rendered, ocrStatus, agentObjs, logEntries,
                   runs, uploads, nRuns, budget>>

----------------------------------------------------------------------------
(* The chain run: handleRunChain, lines 117-168 *)

\* Mutant of RunButtonEnabled: the button without its disabled attribute.
RunButtonAlwaysEnabled == TRUE

\* The Run button is rendered on the run tab and disabled while the rendered
\* workspace is running (lines 409-415).
RunButtonEnabled == ~rendered.isRunning

\* The initial input held by TabRunChain (lines 395-398, 407): the rendered
\* rawText unless the reviewer typed another one.
InitialInputs ==
    {rendered.rawText} \cup (IF budget.typed THEN CustomInputs ELSE {})

\* The frames of finished activations are gone.
Reclaim(rs) ==
    [q \in DOMAIN rs |->
        IF rs[q].pc \in {"done", "failed"} THEN IdleRun ELSE rs[q]]

\* Click on Run: lines 118-140 up to the first await.  The agents iterated
\* are those of the array the click's closure holds.
handleRunChain(baseInput) ==
    /\ renderedTab = "run"
    /\ RunButtonEnabled
    /\ nRuns < budget.runs
    /\ LET r == nRuns + 1
           agents == rendered.agentsRunConfig
           empty == Len(agents) = 0
           frame == [pc |-> IF empty THEN "done" ELSE "await",
                     agents |-> agents,
                     k |-> IF empty THEN 0 ELSE 1,
                     baseInput |-> baseInput,
                     currentInput |-> baseInput,
                     totalLatency |-> 0,
                     newRunLog |-> <<>>,
                     calls |-> IF empty THEN <<>>
                               ELSE <<Request(agents[1], baseInput)>>,
                     created |-> <<>>,
                     received |-> <<>>,
                     elapsed |-> <<>>,
                     atStart |-> [i \in DOMAIN agents |-> agentObjs[agents[i]]]]
           finish(p) == IF empty THEN FinallyUpdater(p, <<>>, 0) ELSE p
           rs == [Reclaim(runs) EXCEPT ![r] = frame]
       IN  /\ workspace' = finish(StartUpdater(workspace))
           /\ rendered' = finish(StartUpdater(rendered))
           /\ runs' = rs
           /\ logEntries' = Collect(logEntries, workspace', rendered', rs)
    /\ nRuns' = nRuns + 1
    /\ UNCHANGED <<activeTab, renderedTab, ocrStatus, agentObjs, uploads,
                   budget>>

\* The awaited generateContent of run r resolves: lines 141-155, then either
\* the next iteration up to its await (lines 126-140) or the end of the loop
\* and the finally block (lines 162-166).
generateContentResolved(r, response, elapsed) ==
    /\ runs[r].pc = "await"
    /\ LET run == runs[r]
           agentConfig == run.agents[run.k]
           latency == elapsed
           totalLatency == Accumulate(run.totalLatency, latency)
           outputText == OutputText(response)
           id == <<r, run.k>>
           logEntry == [agentName |-> agentObjs[agentConfig].name,
                        model |-> agentObjs[agentConfig].model,
                        output |-> outputText,
                        latency |-> ToFixed2(latency)]
           newRunLog == Append(run.newRunLog, id)
           last == run.k = Len(run.agents)
           frame == [run EXCEPT
                       !.pc = IF last THEN "done" ELSE "await",
                       !.k = IF last THEN @ ELSE @ + 1,
                       !.currentInput = NextInput(@, outputText),
                       !.totalLatency = totalLatency,
                       !.newRunLog = newRunLog,
                       !.calls = IF last THEN @
                                 ELSE Append(@, Request(run.agents[run.k + 1],
                                        NextInput(run.currentInput, outputText))),
                       !.created = Append(@, outputText),
                       !.received = Append(@, response),
                       !.elapsed = Append(@, elapsed)]
           appended == AppendUpdater(workspace, newRunLog)
           rs == [runs EXCEPT ![r] = frame]
       IN  /\ workspace' = IF last
                           THEN FinallyUpdater(appended, newRunLog, totalLatency)
                           ELSE appended
           /\ runs' = rs
           /\ logEntries' = Collect(logEntries @@ (id :> logEntry),
                                    workspace', rendered, rs)
    /\ UNCHANGED <<rendered, activeTab, renderedTab, ocrStatus, agentObjs,
                   uploads, nRuns, budget>>

\* The awaited generateContent of run r rejects: catch (lines 158-160) and
\* finally (lines 162-166).
generateContentRejected(r, message) ==
    /\ runs[r].pc = "await"
    /\ LET run == runs[r]
           rs == [runs EXCEPT ![r].pc = "failed"]
       IN  /\ workspace' = FinallyUpdater(ErrorUpdater(workspace, message),
                                          run.newRunLog, run.totalLatency)
           /\ runs' = rs
           /\ logEntries' = Collect(logEntries, workspace', rendered, rs)
    /\ UNCHANGED <<rendered, activeTab, renderedTab, ocrStatus, agentObjs,
                   uploads, nRuns, budget>>

----------------------------------------------------------------------------
(* Agent registry: handleRunConfigChange, lines 170-179 *)

\* field.startsWith('params.') (line 172)
IsParamField(field) == field \in {"params.temperature", "params.maxOutputTokens"}

\* field.split('.')[1] (line 173)
ParamKey(field) ==
    IF field = "params.temperature" THEN "temperature" ELSE "maxOutputTokens"

\* The (field, value) pairs the controls of TabAgents pass (lines 351-384).
ConfigEdits ==
    ({"model"} \X Models)
    \cup ({"params.temperature"} \X Temperatures)
    \cup ({"params.maxOutputTokens"} \X TokenCounts)
    \cup ({"system_prompt"} \X PromptTexts)

\* The value a control of TabAgents shows for an agent object.
FieldValue(obj, field) ==
    IF IsParamField(field) THEN obj.params[ParamKey(field)] ELSE obj[field]

\* Mutant of AssignField: a params edit assigns every key of params.
AssignFieldAllParams(obj, field, value) ==
    IF IsParamField(field)
    THEN [obj EXCEPT !.params = [key \in DOMAIN obj.params |-> value]]
    ELSE [obj EXCEPT ![field] = value]

\* lines 172-177: the assignment into the object newConfig[index] refers to.
AssignField(obj, field, value) ==
    IF IsParamField(field)
    THEN [obj EXCEPT !.params[ParamKey(field)] = value]
    ELSE [obj EXCEPT ![field] = value]

\* A change event of a control of agent card `index` (0-based in the source,
\* 1-based here).  newConfig is a new array holding the same objects.
handleRunConfigChange(index, field, value) ==
    /\ renderedTab = "agents"
    /\ budget.config > 0
    /\ index \in DOMAIN rendered.agentsRunConfig
    /\ LET newConfig == rendered.agentsRunConfig
           obj == newConfig[index]
       IN  /\ value # FieldValue(agentObjs[obj], field)
           /\ agentObjs' = [agentObjs EXCEPT
                              ![obj] = AssignField(@, field, value)]
           /\ workspace' = RunConfigUpdater(workspace, newConfig)
           /\ rendered' = RunConfigUpdater(rendered, newConfig)
    /\ budget' = [budget EXCEPT !.config = @ - 1]
    /\ UNCHANGED <<activeTab, renderedTab, ocrStatus, logEntries, runs,
                   uploads, nRuns>>

----------------------------------------------------------------------------
(* Handoff editor: handleHandoffEdit, lines 181-185 *)

\* Mutant of handleHandoffEdit: the edited text is also handed to the agent
\* the run in progress is waiting for, which is invoked again with it.
handleHandoffEditRerun(index, newOutput) ==
    /\ renderedTab = "run"
    /\ budget.handoff > 0
    /\ index \in DOMAIN rendered.runLog
    /\ LET newRunLog == rendered.runLog
           obj == newRunLog[index]
           rs == [r \in DOMAIN runs |->
                    IF runs[r].pc = "await"
                    THEN [runs[r] EXCEPT
                            !.currentInput = newOutput,
                            !.calls = Append(@,
                               Request(runs[r].agents[runs[r].k], newOutput))]
                    ELSE runs[r]]
       IN  /\ newOutput # logEntries[obj].output
           /\ workspace' = HandoffUpdater(workspace, newRunLog)
           /\ rendered' = HandoffUpdater(rendered, newRunLog)
           /\ runs' = rs
           /\ logEntries' = Collect([logEntries EXCEPT ![obj].output = newOutput],
                                    workspace', rendered', rs)
    /\ budget' = [budget EXCEPT !.handoff = @ - 1]
    /\ UNCHANGED <<activeTab, renderedTab, ocrStatus, agentObjs, uploads,
                   nRuns>>

\* A change event of the textarea of rendered run-log entry `index`.
\* newRunLog is a copy of the array the closure holds; the entry object is
\* assigned in place.
handleHandoffEdit(index, newOutput) ==
    /\ renderedTab = "run"
    /\ budget.handoff > 0
    /\ index \in DOMAIN rendered.runLog
    /\ LET newRunLog == rendered.runLog
           obj == newRunLog[index]
       IN  /\ newOutput # logEntries[obj].output
           /\ workspace' = HandoffUpdater(workspace, newRunLog)
           /\ rendered' = HandoffUpdater(rendered, newRunLog)
           /\ logEntries' = Collect([logEntries EXCEPT ![obj].output = newOutput],
                                    workspace', rendered', runs)
    /\ budget' = [budget EXCEPT !.handoff = @ - 1]
    /\ UNCHANGED <<activeTab, renderedTab, ocrStatus, agentObjs, runs,
                   uploads, nRuns>>

----------------------------------------------------------------------------
(* Ingestion: handleRawTextChange, handleFileChange, handlePdfUpload *)

AutoAdvanceThreshold == 200

\* The values of the paste textarea's change events (line 322).
PastedInputs ==
    PastedTexts \cup (IF budget.long THEN LongTexts ELSE {})

\* Mutant of ShouldAdvance: `>=` for `>`.
ShouldAdvanceAtLeast(tab, newText, oldText) ==
    /\ tab = "ingestion"
    /\ Len(newText) - Len(oldText) >= AutoAdvanceThreshold

\* The condition of line 265.
ShouldAdvance(tab, newText, oldText) ==
    /\ tab = "ingestion"
    /\ Len(newText) - Len(oldText) > AutoAdvanceThreshold

\* A change event of the paste textarea of TabIngestion: lines 255-268.
handleRawTextChange(newText) ==
    /\ renderedTab = "ingestion"
    /\ budget.pastes > 0
    /\ newText # rendered.rawText
    /\ LET oldText == rendered.rawText
           advance == ShouldAdvance(renderedTab, newText, oldText)
       IN  /\ workspace' = RawTextUpdater(workspace, newText)
           /\ rendered' = RawTextUpdater(rendered, newText)
           /\ activeTab' = IF advance THEN "agents" ELSE activeTab
           /\ renderedTab' = IF advance THEN "agents" ELSE renderedTab
    /\ budget' = [budget EXCEPT !.pastes = @ - 1]
    /\ UNCHANGED <<ocrStatus, agentObjs, logEntries, runs, uploads, nRuns>>

\* The files the user can select.
Files ==
    {[type |-> "text/plain", text |-> t] : t \in FileTexts}
    \cup {[type |-> "application/pdf", numPages |-> n,
            pages |-> [i \in 1..n |-> PageText(i)]] : n \in PageCounts}

\* The sequence s without its element u.
Remove(s, u) == SubSeq(s, 1, u - 1) \o SubSeq(s, u + 1, Len(s))

RenderingStatus(i, n) ==
    "Rendering page " \o ToString(i) \o "/" \o ToString(n) \o "..."

AnalyzingStatus(i, n) ==
    "Analyzing page " \o ToString(i) \o "/" \o ToString(n) \o " with OCR..."

ProgressStatus(i, percent) ==
    "OCR on page " \o ToString(i) \o ": " \o ToString(percent) \o "%"

\* A change event of the file input: lines 187-206 and, for a PDF, lines
\* 208-210 and 252, up to the start of the read.
handleFileChange(file) ==
    /\ renderedTab = "ingestion"
    /\ budget.files > 0
    /\ IF file.type = "application/pdf"
       THEN /\ ocrStatus' = "Loading PDF..."
            /\ uploads' = Append(uploads,
                   [type |-> file.type, pc |-> "reading",
                    numPages |-> file.numPages, pages |-> file.pages,
                    i |-> 0, fullText |-> ""])
       ELSE /\ ocrStatus' = ocrStatus
            /\ uploads' = Append(uploads,
                   [type |-> file.type, pc |-> "reading", text |-> file.text])
    /\ budget' = [budget EXCEPT !.files = @ - 1]
    /\ UNCHANGED <<workspace, rendered, activeTab, renderedTab, agentObjs,
                   logEntries, runs, nRuns>>

\* reader.onload of a plain-text file: lines 195-203.
textFileLoaded(u) ==
    /\ u \in DOMAIN uploads
    /\ uploads[u].type # "application/pdf"
    /\ workspace' = TextFileUpdater(workspace, uploads[u].text)
    /\ activeTab' = "agents"
    /\ uploads' = Remove(uploads, u)
    /\ UNCHANGED <<rendered, renderedTab, ocrStatus, agentObjs, logEntries,
                   runs, nRuns, budget>>

\* fileReader.onload of a PDF and getDocument resolved: lines 212-218.
pdfLoaded(u) ==
    /\ u \in DOMAIN uploads
    /\ uploads[u].type = "application/pdf"
    /\ uploads[u].pc = "reading"
    /\ uploads' = [uploads EXCEPT ![u].pc = "rendering", ![u].i = 1]
    /\ ocrStatus' = RenderingStatus(1, uploads[u].numPages)
    /\ UNCHANGED <<workspace, rendered, activeTab, renderedTab, agentObjs,
                   logEntries, runs, nRuns, budget>>

\* getPage and page.render resolved: lines 219-229 up to the await of
\* Tesseract.recognize.
pageRendered(u) ==
    /\ u \in DOMAIN uploads
    /\ uploads[u].type = "application/pdf"
    /\ uploads[u].pc = "rendering"
    /\ uploads' = [uploads EXCEPT ![u].pc = "recognizing"]
    /\ ocrStatus' = AnalyzingStatus(uploads[u].i, uploads[u].numPages)
    /\ UNCHANGED <<workspace, rendered, activeTab, renderedTab, agentObjs,
                   logEntries, runs, nRuns, budget>>

ProgressTicks == {50}

\* The logger callback of Tesseract.recognize: lines 233-237.
ocrProgress(u, percent) ==
    /\ u \in DOMAIN uploads
    /\ uploads[u].type = "application/pdf"
    /\ uploads[u].pc = "recognizing"
    /\ ocrStatus' = ProgressStatus(uploads[u].i, percent)
    /\ UNCHANGED <<workspace, rendered, activeTab, renderedTab, agentObjs,
                   logEntries, runs, uploads, nRuns, budget>>

\* Tesseract.recognize resolved with the page's text: line 240, then the next
\* page (lines 217-218) or the completion (lines 243-249).
pageRecognized(u) ==
    /\ u \in DOMAIN uploads
    /\ uploads[u].type = "application/pdf"
    /\ uploads[u].pc = "recognizing"
    /\ LET up == uploads[u]
           text == up.pages[up.i]
           fullText == up.fullText \o text \o "\n\n"
       IN  IF up.i < up.numPages
           THEN /\ uploads' = [uploads EXCEPT ![u].pc = "rendering",
                                              ![u].i = up.i + 1,
                                              ![u].fullText = fullText]
                /\ ocrStatus' = RenderingStatus(up.i + 1, up.numPages)
                /\ UNCHANGED <<workspace, activeTab>>
           ELSE /\ workspace' = PdfUpdater(workspace, fullText, up.numPages)
                /\ ocrStatus' = ""
                /\ activeTab' = "agents"
                /\ uploads' = Remove(uploads, u)
    /\ UNCHANGED <<rendered, renderedTab, agentObjs, logEntries, runs, nRuns,
                   budget>>

\* A read error, or a rejected getDocument, getPage, render or recognize:
\* nothing catches it, the ingestion just stops.
ingestionFails(u) ==
    /\ u \in DOMAIN uploads
    /\ uploads' = Remove(uploads, u)
    /\ UNCHANGED <<workspace, rendered, activeTab, renderedTab, ocrStatus,
                   agentObjs, logEntries, runs, nRuns, budget>>

----------------------------------------------------------------------------
(* Dashboard and export: TabDashboard (lines 445-458), downloadResults *)

\* Mutant of CompletionScore: `>=` for `>` in the thresholds on chars.
CompletionScoreAtLeast(m) ==
    LET s1 == IF m.ocr_pages > 0 \/ m.chars >= 1000 THEN 1 ELSE 0
        s2 == IF m.agents_run >= 2 THEN s1 + 1 ELSE s1
    IN  IF m.chars >= 5000 /\ m.agents_run >= 4 THEN s2 + 1 ELSE s2

\* lines 447-450: score starts at 0 and is incremented by each `if`.
CompletionScore(m) ==
    LET s1 == IF m.ocr_pages > 0 \/ m.chars > 1000 THEN 1 ELSE 0
        s2 == IF m.agents_run >= 2 THEN s1 + 1 ELSE s1
    IN  IF m.chars > 5000 /\ m.agents_run >= 4 THEN s2 + 1 ELSE s2

\* lines 452-457: the labels of statusMap, by score.
statusMap ==
    [score \in 0..3 |->
        CASE score = 0 -> "Getting Started"
          [] score = 1 -> "Warming Up"
          [] score = 2 -> "On Track"
          [] score = 3 -> "Wow! Pro Level"]

\* What TabDashboard shows in its status banner (lines 446-458, 464-466),
\* computed from the workspace of the render.
TabDashboard ==
    LET score == CompletionScore(rendered.metrics)
    IN  [score |-> score, label |-> statusMap[score]]

\* Mutant of Substring: the character at indexEnd - 1 left out.
SubstringShort(str, indexStart, indexEnd) ==
    LET clamp(n) == IF n < 0 THEN 0 ELSE IF n > Len(str) THEN Len(str) ELSE n
        from == IF clamp(indexStart) < clamp(indexEnd)
                THEN clamp(indexStart) ELSE clamp(indexEnd)
        to == IF clamp(indexStart) < clamp(indexEnd)
              THEN clamp(indexEnd) ELSE clamp(indexStart)
    IN  SubSeq(str, from + 1, to - 1)

\* String.prototype.substring: both indices are clamped to 0..length and
\* swapped if out of order; the characters from..to-1 (0-based) are returned.
Substring(str, indexStart, indexEnd) ==
    LET clamp(n) == IF n < 0 THEN 0 ELSE IF n > Len(str) THEN Len(str) ELSE n
        from == IF clamp(indexStart) < clamp(indexEnd)
                THEN clamp(indexStart) ELSE clamp(indexEnd)
        to == IF clamp(indexStart) < clamp(indexEnd)
              THEN clamp(indexEnd) ELSE clamp(indexStart)
    IN  SubSeq(str, from + 1, to)

ExcerptLength == 1000

\* The Download button is rendered on the run tab once the rendered run log
\* has entries and the rendered workspace is not running (lines 438-440).
DownloadButtonShown ==
    /\ renderedTab = "run"
    /\ Len(rendered.runLog) > 0
    /\ ~rendered.isRunning

\* exportData of downloadResults (lines 271-275), built from the workspace
\* the click's closure holds.  The click changes no state of App.
downloadResults ==
    [guidance_excerpt |-> Substring(rendered.rawText, 0, ExcerptLength),
     chain |-> [i \in DOMAIN rendered.runLog |->
                  [agent |-> logEntries[rendered.runLog[i]].agentName,
                   model |-> logEntries[rendered.runLog[i]].model,
                   output |-> logEntries[rendered.runLog[i]].output]],
     metrics |-> rendered.metrics]

----------------------------------------------------------------------------
(* The specification *)

Next ==
    \/ Render
    \/ \E key \in Tabs : setActiveTab(key)
    \/ \E baseInput \in InitialInputs : handleRunChain(baseInput)
    \/ \E r \in DOMAIN runs, res \in Resolutions :
          generateContentResolved(r, res.response, res.elapsed)
    \/ \E r \in DOMAIN runs, message \in ErrMsgs :
          generateContentRejected(r, message)
    \/ \E index \in 1..NumAgents, edit \in ConfigEdits :
          handleRunConfigChange(index, edit[1], edit[2])
    \/ \E index \in 1..NumAgents, newOutput \in HandoffTexts :
          handleHandoffEdit(index, newOutput)
    \/ \E newText \in PastedInputs : handleRawTextChange(newText)
    \/ \E file \in Files : handleFileChange(file)
    \/ \E u \in DOMAIN uploads : textFileLoaded(u)
    \/ \E u \in DOMAIN uploads : pdfLoaded(u)
    \/ \E u \in DOMAIN uploads : pageRendered(u)
    \/ \E u \in DOMAIN uploads, percent \in ProgressTicks : ocrProgress(u, percent)
    \/ \E u \in DOMAIN uploads : pageRecognized(u)
    \/ \E u \in DOMAIN uploads : ingestionFails(u)

Spec == Init /\ [][Next]_vars

----------------------------------------------------------------------------
(* Spec is the union of the kinds of sessions, one per edit budget; each    *)
(* is a specification of its own, with the actions its sessions can take:   *)
(* renders, navigation and chain runs, and the edits of its kind.           *)

\* Sessions with chain runs and handoff edits.
InitChain ==
    /\ Constructed
    /\ budget = ChainBudget

NextChain ==
    \/ Render
    \/ \E key \in Tabs : setActiveTab(key)
    \/ \E baseInput \in InitialInputs : handleRunChain(baseInput)
    \/ \E r \in DOMAIN runs, res \in Resolutions :
          generateContentResolved(r, res.response, res.elapsed)
    \/ \E r \in DOMAIN runs, message \in ErrMsgs :
          generateContentRejected(r, message)
    \/ \E index \in 1..NumAgents, newOutput \in HandoffTexts :
          handleHandoffEdit(index, newOutput)

SpecChain == InitChain /\ [][NextChain]_vars

\* An invocation of generateContent returns or fails.
generateContentSettles ==
    \/ \E r \in DOMAIN runs, res \in Resolutions :
          generateContentResolved(r, res.response, res.elapsed)
    \/ \E r \in DOMAIN runs, message \in ErrMsgs :
          generateContentRejected(r, message)

\* The sessions of SpecChain in which every invocation eventually returns or
\* fails, and the continuation of the await then runs.
SpecChainSettling == SpecChain /\ WF_vars(generateContentSettles)

\* Sessions with chain runs and edits of the run configuration.
InitRegistry ==
    /\ Constructed
    /\ budget = RegistryBudget

NextRegistry ==
    \/ Render
    \/ \E key \in Tabs : setActiveTab(key)
    \/ \E baseInput \in InitialInputs : handleRunChain(baseInput)
    \/ \E r \in DOMAIN runs, res \in Resolutions :
          generateContentResolved(r, res.response, res.elapsed)
    \/ \E r \in DOMAIN runs, message \in ErrMsgs :
          generateContentRejected(r, message)
    \/ \E index \in 1..NumAgents, edit \in ConfigEdits :
          handleRunConfigChange(index, edit[1], edit[2])

SpecRegistry == InitRegistry /\ [][NextRegistry]_vars

\* Sessions with chain runs and ingestions.
InitIngest ==
    /\ Constructed
    /\ budget \in IngestBudgets

NextIngest ==
    \/ Render
    \/ \E key \in Tabs : setActiveTab(key)
    \/ \E baseInput \in InitialInputs : handleRunChain(baseInput)
    \/ \E r \in DOMAIN runs, res \in Resolutions :
          generateContentResolved(r, res.response, res.elapsed)
    \/ \E r \in DOMAIN runs, message \in ErrMsgs :
          generateContentRejected(r, message)
    \/ \E newText \in PastedInputs : handleRawTextChange(newText)
    \/ \E file \in Files : handleFileChange(file)
    \/ \E u \in DOMAIN uploads : textFileLoaded(u)
    \/ \E u \in DOMAIN uploads : pdfLoaded(u)
    \/ \E u \in DOMAIN uploads : pageRendered(u)
    \/ \E u \in DOMAIN uploads, percent \in ProgressTicks : ocrProgress(u, percent)
    \/ \E u \in DOMAIN uploads : pageRecognized(u)
    \/ \E u \in DOMAIN uploads : ingestionFails(u)

SpecIngest == InitIngest /\ [][NextIngest]_vars

\* Sessions with pastes and file ingestions, without chain runs.
InitUpload ==
    /\ Constructed
    /\ budget = UploadBudget

NextUpload ==
    \/ Render
    \/ \E key \in Tabs : setActiveTab(key)
    \/ \E newText \in PastedInputs : handleRawTextChange(newText)
    \/ \E file \in Files : handleFileChange(file)
    \/ \E u \in DOMAIN uploads : textFileLoaded(u)
    \/ \E u \in DOMAIN uploads : pdfLoaded(u)
    \/ \E u \in DOMAIN uploads : pageRendered(u)
    \/ \E u \in DOMAIN uploads, percent \in ProgressTicks : ocrProgress(u, percent)
    \/ \E u \in DOMAIN uploads : pageRecognized(u)
    \/ \E u \in DOMAIN uploads : ingestionFails(u)

SpecUpload == InitUpload /\ [][NextUpload]_vars

\* Sessions with pastes of short and long texts, chain runs and handoff
\* edits.
InitReview ==
    /\ Constructed
    /\ budget = ReviewBudget

NextReview ==
    \/ Render
    \/ \E key \in Tabs : setActiveTab(key)
    \/ \E baseInput \in InitialInputs : handleRunChain(baseInput)
    \/ \E r \in DOMAIN runs, res \in Resolutions :
          generateContentResolved(r, res.response, res.elapsed)
    \/ \E r \in DOMAIN runs, message \in ErrMsgs :
          generateContentRejected(r, message)
    \/ \E index \in 1..NumAgents, newOutput \in HandoffTexts :
          handleHandoffEdit(index, newOutput)
    \/ \E newText \in PastedInputs : handleRawTextChange(newText)

SpecReview == InitReview /\ [][NextReview]_vars

\* The dashboard at the end of a session.  The sessions differ in the text
\* ingested last, in the pages OCR'd, and in how far the chain got.
SessionChars == {500, 1000, 1001, 1200, 5000, 5001, 6000}

\* The workspace after a session that ingested `pages` pages by OCR, left a
\* rawText of `chars` characters, and ran the chain on it: every invocation
\* took 16 ms and returned a text, and the one after `agentsRun` agents, if
\* there is one, failed.
SessionWorkspace(chars, pages, agentsRun) ==
    [initialWorkspace EXCEPT
        !.rawText = Repeat("x", chars),
        !.runLog = [k \in 1..agentsRun |-> <<1, k>>],
        !.metrics = [ocr_pages |-> pages, chars |-> chars,
                     agents_run |-> agentsRun, latency |-> 16 * agentsRun],
        !.error = IF 0 < agentsRun /\ agentsRun < NumAgents
                  THEN <<"API error">> ELSE Null]

\* The entries that session's run logged.
SessionLog(agentsRun) ==
    [id \in {<<1, k>> : k \in 1..agentsRun} |->
        [agentName |-> initialAgents[id[2]].name,
         model |-> initialAgents[id[2]].model,
         output |-> "r1",
         latency |-> ToFixed2(16)]]

InitDashboard ==
    /\ \E chars \in SessionChars, pages \in {0} \cup PageCounts,
          agentsRun \in 0..NumAgents :
          /\ workspace = SessionWorkspace(chars, pages, agentsRun)
          /\ logEntries = SessionLog(agentsRun)
          /\ nRuns = IF agentsRun > 0 THEN 1 ELSE 0
    /\ rendered = workspace
    /\ activeTab \in Tabs
    /\ renderedTab = activeTab
    /\ ocrStatus = ""
    /\ agentObjs = initialAgents
    /\ runs = [r \in 1..MaxRuns |-> IdleRun]
    /\ uploads = <<>>
    /\ budget = [NoEdits EXCEPT !.runs = nRuns]

NextDashboard ==
    \E key \in Tabs : setActiveTab(key)

SpecDashboard == InitDashboard /\ [][NextDashboard]_vars

----------------------------------------------------------------------------
(* Properties *)

Abs(x) == IF x < 0 THEN -x ELSE x

\* The sum of the latencies of the entries of an array, in milliseconds.
RECURSIVE LoggedLatency(_, _)
LoggedLatency(heap, array) ==
    IF array = <<>> THEN 0
    ELSE 10 * heap[Head(array)].latency + LoggedLatency(heap, Tail(array))

Awaiting == {r \in DOMAIN runs : runs[r].pc = "await"}

\* Run r ends in this step with every invocation resolved.
Completes(r) == runs[r].pc = "await" /\ runs'[r].pc = "done"

\* Run r ends in this step by a rejected invocation.
Fails(r) == runs[r].pc = "await" /\ runs'[r].pc = "failed"

\* C1: when a run over the N agents of agentsRunConfig completes with every
\* invocation resolved, the step that completes it leaves runLog with exactly
\* N entries, entry i naming the i-th agent of agentsRunConfig, and
\* metrics.agents_run = N.
C1_CompletedRunLogsEveryAgent ==
    [][\A r \in DOMAIN runs :
          Completes(r) =>
             LET N == Len(workspace'.agentsRunConfig)
                 runLog == workspace'.runLog
             IN  /\ N = NumAgents
                 /\ Len(runLog) = N
                 /\ \A i \in DOMAIN runLog :
                       logEntries'[runLog[i]].agentName
                          = agentObjs'[workspace'.agentsRunConfig[i]].name
                 /\ workspace'.metrics.agents_run = N]_vars

\* C1 witness: a run has completed and the workspace shows its N entries.
C1_Witness ==
    \E r \in DOMAIN runs :
       /\ runs[r].pc = "done"
       /\ Len(workspace.runLog) = NumAgents
       /\ workspace.metrics.agents_run = NumAgents

\* C2: in every run the first request carries the run's initial input; the
\* request for agent k > 1 carries the output recorded for agent k-1 when its
\* entry was created; requests go to the agents in list order, and the
\* request for agent k is made only once the entries of agents 1..k-1 have
\* been appended.
C2_Handoff ==
    \A r \in DOMAIN runs :
       LET run == runs[r] IN
       /\ \A k \in DOMAIN run.calls :
             /\ run.calls[k].agentConfig = run.agents[k]
             /\ run.calls[k].input =
                   IF k = 1 THEN run.baseInput ELSE run.created[k - 1]
       /\ Len(run.created) = Len(run.newRunLog)
       /\ run.pc = "await" => Len(run.calls) = Len(run.newRunLog) + 1
       /\ run.pc = "failed" => Len(run.calls) = Len(run.newRunLog) + 1
       /\ run.pc = "done" => Len(run.calls) = Len(run.newRunLog)

\* C2 witness: a third request was made after two outputs that differ from
\* each other and from the initial input.
C2_Witness ==
    \E r \in DOMAIN runs :
       /\ Len(runs[r].calls) >= 3
       /\ runs[r].calls[2].input # runs[r].baseInput
       /\ runs[r].calls[3].input # runs[r].calls[2].input

\* C3: when the invocation of agent k fails, the step that ends the run
\* leaves runLog with exactly the k-1 entries of the agents completed before,
\* error non-empty and isRunning false, and makes no further request.
C3_FailedRunKeepsPrefix ==
    [][\A r \in DOMAIN runs :
          Fails(r) =>
             /\ workspace'.runLog = runs[r].newRunLog
             /\ Len(workspace'.runLog) = runs[r].k - 1
             /\ workspace'.error # Null
             /\ workspace'.error # <<"">>
             /\ ~workspace'.isRunning
             /\ runs'[r].calls = runs[r].calls]_vars

\* C4: while the first invocation of a run is outstanding, the workspace,
\* as queued and as rendered, shows an empty runLog, no error, and
\* isRunning = true.
C4_StartClears ==
    \A r \in DOMAIN runs :
       (runs[r].pc = "await" /\ runs[r].k = 1) =>
          /\ workspace.runLog = <<>> /\ rendered.runLog = <<>>
          /\ workspace.error = Null /\ rendered.error = Null
          /\ workspace.isRunning /\ rendered.isRunning

\* C4 witness: the first invocation of a second run is outstanding after a
\* run that had logged entries.
C4_Witness ==
    /\ nRuns = 2
    /\ runs[2].pc = "await" /\ runs[2].k = 1
    /\ workspace.metrics.agents_run > 0

\* C5: metrics.chars is the length of rawText, in the queued workspace and in
\* the rendered one.
C5_CharsIsLength ==
    /\ workspace.metrics.chars = Len(workspace.rawText)
    /\ rendered.metrics.chars = Len(rendered.rawText)

\* C5 witness: a run started on the initial text has finished after the text
\* was replaced by an ingestion.
C5_Witness ==
    \E r \in DOMAIN runs :
       /\ runs[r].pc \in {"done", "failed"}
       /\ runs[r].baseInput = initialGuidanceText
       /\ workspace.rawText # initialGuidanceText
       /\ ~workspace.isRunning

\* C6: once a run has ended and isRunning is false, metrics.agents_run is the
\* length of runLog.
C6_AgentsRunIsLogLength ==
    (nRuns > 0 /\ Awaiting = {} /\ ~workspace.isRunning) =>
       workspace.metrics.agents_run = Len(workspace.runLog)

\* C7: every entry of the base agents list keeps its initial value.
C7_BaseAgentsUnchanged ==
    \A i \in DOMAIN workspace.agents :
       agentObjs[workspace.agents[i]] = initialAgents[i]

\* C8: at most one run is in progress, hence at most one invocation is
\* outstanding; while it is, isRunning is true in the queued and in the
\* rendered workspace (the one the Run button is disabled by).
C8_OneRunAtATime ==
    /\ Cardinality(Awaiting) <= 1
    /\ Awaiting # {} =>
          /\ workspace.isRunning
          /\ rendered.isRunning

\* C8 witness: a second run is in progress, the first one having ended.
C8_Witness ==
    /\ nRuns = 2
    /\ runs[2].pc = "await"
    /\ runs[1].pc = "idle"

\* A handoff edit is the only step that spends the handoff budget.
IsHandoffEdit == budget'.handoff < budget.handoff

\* C9: a handoff edit changes the output of one entry and nothing else: the
\* runLog array, the other fields of the entry, the other entries and the
\* metrics stay as they were.
C9_HandoffEditFrame ==
    [][IsHandoffEdit =>
          /\ workspace'.runLog = workspace.runLog
          /\ workspace'.metrics = workspace.metrics
          /\ \E edited \in Refs(workspace.runLog) :
                \A id \in Refs(workspace.runLog) :
                   /\ id \in DOMAIN logEntries'
                   /\ logEntries'[id].agentName = logEntries[id].agentName
                   /\ logEntries'[id].model = logEntries[id].model
                   /\ logEntries'[id].latency = logEntries[id].latency
                   /\ id # edited =>
                         logEntries'[id].output = logEntries[id].output]_vars

C11_LoggedModelIsRequested ==
    \A r \in DOMAIN runs :
       \A i \in DOMAIN runs[r].newRunLog :
          logEntries[runs[r].newRunLog[i]].model = runs[r].calls[i].model

\* C12: the completion score the dashboard shows is the number of the three
\* conditions that hold of the metrics: (ocr_pages > 0 or chars > 1000),
\* (agents_run >= 2), (chars > 5000 and agents_run >= 4); it is in 0..3 and
\* its label is Getting Started, Warming Up, On Track or Wow! Pro Level, in
\* that order; it is 3 for 6000 chars and 4 agents, 0 for 500 chars with no
\* agent and no page, 2 for 1200 chars and 2 agents.
C12_CompletionScore ==
    renderedTab = "dashboard" =>
       LET m == rendered.metrics
           holding == {c \in 1..3 :
                         \/ c = 1 /\ (m.ocr_pages > 0 \/ m.chars > 1000)
                         \/ c = 2 /\ m.agents_run >= 2
                         \/ c = 3 /\ (m.chars > 5000 /\ m.agents_run >= 4)}
           labels == <<"Getting Started", "Warming Up", "On Track",
                       "Wow! Pro Level">>
       IN  /\ TabDashboard.score = Cardinality(holding)
           /\ TabDashboard.score \in 0..3
           /\ TabDashboard.label = labels[TabDashboard.score + 1]
           /\ (m.chars = 6000 /\ m.agents_run = 4) => TabDashboard.score = 3
           /\ (m.chars = 500 /\ m.agents_run = 0 /\ m.ocr_pages = 0)
                 => TabDashboard.score = 0
           /\ (m.chars = 1200 /\ m.agents_run = 2 /\ m.ocr_pages = 0)
                 => TabDashboard.score = 2

\* C12 witness: the dashboard shows the top level for a text at the upper
\* threshold plus one character and a complete run.
C12_Witness ==
    /\ renderedTab = "dashboard"
    /\ rendered.metrics.chars = 5001
    /\ rendered.metrics.agents_run = 4
    /\ TabDashboard.label = "Wow! Pro Level"

\* C13: whenever the Download button is shown, the document it exports has
\* as guidance_excerpt the first min(1000, length) characters of the rawText
\* of the workspace shown, as chain that workspace's runLog mapped entry by
\* entry, in order, to {agent, model, output} with the outputs as edited,
\* and as metrics that workspace's metrics.
C13_ExportDocument ==
    DownloadButtonShown =>
       LET doc == downloadResults
           rawText == rendered.rawText
           runLog == rendered.runLog
           n == IF Len(rawText) < 1000 THEN Len(rawText) ELSE 1000
       IN  /\ Len(doc.guidance_excerpt) = n
           /\ doc.guidance_excerpt \o SubSeq(rawText, n + 1, Len(rawText))
                 = rawText
           /\ DOMAIN doc.chain = DOMAIN runLog
           /\ \A i \in DOMAIN runLog :
                 /\ DOMAIN doc.chain[i] = {"agent", "model", "output"}
                 /\ doc.chain[i].agent = logEntries[runLog[i]].agentName
                 /\ doc.chain[i].model = logEntries[runLog[i]].model
                 /\ doc.chain[i].output = logEntries[runLog[i]].output
           /\ doc.metrics = rendered.metrics
           /\ rendered = workspace =>
                 /\ doc.metrics = workspace.metrics
                 /\ Len(doc.chain) = Len(workspace.runLog)

\* C13 witness: the button is shown for a text of more than 1000 characters
\* and a run log with an edited output, which the exported chain carries.
C13_Witness ==
    /\ DownloadButtonShown
    /\ Len(rendered.rawText) > 1000
    /\ Len(downloadResults.guidance_excerpt) = 1000
    /\ \E i \in DOMAIN downloadResults.chain :
          /\ downloadResults.chain[i].output \in HandoffTexts
          /\ \E r \in DOMAIN runs :
                /\ i \in DOMAIN runs[r].created
                /\ runs[r].created[i] # downloadResults.chain[i].output

\* The sum of a sequence of numbers.
RECURSIVE SumSeq(_)
SumSeq(seq) == IF seq = <<>> THEN 0 ELSE Head(seq) + SumSeq(Tail(seq))

\* C14: when the invocation of agent k fails, the step that ends the run
\* sets metrics.agents_run to k-1 and metrics.latency to the sum of the
\* elapsed times of the k-1 invocations that succeeded; the failed
\* invocation adds nothing.
C14_FailedRunMetrics ==
    [][\A r \in DOMAIN runs :
          Fails(r) =>
             /\ Len(runs[r].elapsed) = runs[r].k - 1
             /\ workspace'.metrics.agents_run = runs[r].k - 1
             /\ workspace'.metrics.latency = SumSeq(runs[r].elapsed)]_vars

\* C14 witness: a run has failed at its third agent and the metrics show
\* the two invocations before it.
C14_Witness ==
    \E r \in DOMAIN runs :
       /\ runs[r].pc = "failed"
       /\ runs[r].k = 3
       /\ workspace.metrics.agents_run = 2
       /\ workspace.metrics.latency = SumSeq(runs[r].elapsed)
       /\ workspace.metrics.latency > 0

\* C15: while a run is in progress, the runLog of the workspace state is the
\* sequence of the entries the run has appended so far: each entry is there
\* from the step that created it, and none is lost.
C15_VisibleLogIsRunPrefix ==
    \A r \in DOMAIN runs :
       runs[r].pc = "await" =>
          /\ workspace.runLog = runs[r].newRunLog
          /\ Len(workspace.runLog) = runs[r].k - 1

\* C16: a handoff edit starts no invocation and leaves every run as it is:
\* its requests made, its current input, its position.  Every request a run
\* makes after its first carries the output of the previous agent as
\* generated, also when that entry's output has been edited since.
C16_HandoffEditInvokesNothing ==
    [][/\ IsHandoffEdit => (runs' = runs /\ nRuns' = nRuns)
       /\ \A r \in DOMAIN runs :
             (runs'[r].pc # "idle" /\ Len(runs'[r].calls) > Len(runs[r].calls))
                => LET n == Len(runs'[r].calls)
                   IN  /\ n = Len(runs[r].calls) + 1
                       /\ runs'[r].calls[n].input =
                             IF n = 1 THEN runs'[r].baseInput
                             ELSE runs'[r].created[n - 1]]_vars

\* C16 witness: the output of the first entry was edited during the run that
\* produced it; the second agent had received the output as generated, and
\* the run went on to its third agent.
C16_Witness ==
    \E r \in DOMAIN runs :
       /\ runs[r].pc = "await"
       /\ runs[r].k = 3
       /\ <<r, 1>> \in DOMAIN logEntries
       /\ logEntries[<<r, 1>>].output \in HandoffTexts
       /\ runs[r].created[1] # logEntries[<<r, 1>>].output
       /\ runs[r].calls[2].input = runs[r].created[1]

\* C17: when every invocation eventually returns or fails, a run that is
\* waiting for an invocation eventually ends, completed or failed, with
\* isRunning false.  Until its invocation returns or fails the run stays as
\* it is: it makes no further request, and isRunning stays true.
C17_RunsEnd ==
    /\ \A r \in 1..MaxRuns :
          (runs[r].pc = "await")
             ~> (runs[r].pc \in {"done", "failed"} /\ ~workspace.isRunning)
    /\ [][\A r \in 1..MaxRuns :
             (/\ runs[r].pc = "await"
              /\ runs'[r].pc # "failed"
              /\ Len(runs'[r].elapsed) = Len(runs[r].elapsed))
                => /\ runs'[r] = runs[r]
                   /\ workspace.isRunning
                   /\ workspace'.isRunning]_vars

\* C17 witness: a second run has ended by a failure after its first
\* invocation returned, and isRunning is false.
C17_Witness ==
    /\ nRuns = 2
    /\ runs[2].pc = "failed"
    /\ runs[2].k = 2
    /\ ~workspace.isRunning

\* C18: when an invocation returns a response without text, the entry
\* created for it has the empty string as output, the run goes on, and the
\* next agent, if there is one, is invoked with the empty string as input.
C18_EmptyOutputHandedOn ==
    \A r \in DOMAIN runs :
       \A i \in DOMAIN runs[r].received :
          "text" \notin DOMAIN runs[r].received[i] =>
             /\ runs[r].created[i] = ""
             /\ Len(runs[r].newRunLog) >= i
             /\ i < Len(runs[r].agents) =>
                   /\ Len(runs[r].calls) > i
                   /\ runs[r].calls[i + 1].agentConfig = runs[r].agents[i + 1]
                   /\ runs[r].calls[i + 1].input = ""
             /\ i = Len(runs[r].agents) => runs[r].pc = "done"

\* C18 witness: the first invocation returned no text, the second agent was
\* invoked with the empty string, returned a text, and the run went on.
C18_Witness ==
    \E r \in DOMAIN runs :
       /\ Len(runs[r].received) >= 2
       /\ "text" \notin DOMAIN runs[r].received[1]
       /\ "text" \in DOMAIN runs[r].received[2]
       /\ runs[r].calls[2].input = ""
       /\ workspace.runLog = runs[r].newRunLog
       /\ logEntries[runs[r].newRunLog[1]].output = ""

\* The texts of a sequence of pages, each followed by an empty line, in page
\* order.
RECURSIVE JoinPages(_)
JoinPages(pages) ==
    IF pages = <<>> THEN ""
    ELSE Head(pages) \o "\n\n" \o JoinPages(Tail(pages))

\* C19: the step that completes a PDF ingestion sets rawText to the texts of
\* the pages in page order (each followed by an empty line), ocr_pages to
\* the page count and chars to the length of the text; the step that
\* completes a plain-text ingestion sets rawText to the file's text and
\* ocr_pages to 0; both move the active view to the agents tab; a paste
\* leaves ocr_pages as it was.
C19_IngestionSetsPages ==
    [][/\ \A u \in DOMAIN uploads :
             (pageRecognized(u) /\ uploads[u].i = uploads[u].numPages)
                => /\ workspace'.rawText = JoinPages(uploads[u].pages)
                   /\ Len(uploads[u].pages) = uploads[u].numPages
                   /\ workspace'.metrics.ocr_pages = uploads[u].numPages
                   /\ workspace'.metrics.chars = Len(workspace'.rawText)
                   /\ activeTab' = "agents"
       /\ \A u \in DOMAIN uploads :
             textFileLoaded(u)
                => /\ workspace'.rawText = uploads[u].text
                   /\ workspace'.metrics.ocr_pages = 0
                   /\ activeTab' = "agents"
       /\ (\E newText \in PastedInputs : handleRawTextChange(newText))
             => /\ workspace'.metrics.ocr_pages = workspace.metrics.ocr_pages
                /\ rendered'.metrics.ocr_pages = rendered.metrics.ocr_pages]_vars

\* C19 witness: a PDF of two pages has been ingested, its text is the two
\* page texts in order, and the agents tab is the active one.
C19_Witness ==
    /\ workspace.metrics.ocr_pages = 2
    /\ workspace.rawText = PageText(1) \o "\n\n" \o PageText(2) \o "\n\n"
    /\ PageText(1) # PageText(2)
    /\ activeTab = "agents"
    /\ uploads = <<>>

\* A change of the paste textarea is the only step that spends a paste.
IsRawTextChange == budget'.pastes < budget.pastes

\* C20: a change of the paste textarea moves the active view to the agents
\* tab exactly when the view is the ingestion tab and the new text is more
\* than 200 characters longer than the text it replaces; otherwise it leaves
\* the active view as it is.  In every state a click on the nav button of
\* any of the four tabs other than the one shown takes effect.
C20_AutoAdvance ==
    /\ [][IsRawTextChange =>
             LET newText == rendered'.rawText
                 oldText == rendered.rawText
             IN  IF renderedTab = "ingestion" /\ Len(newText) > Len(oldText) + 200
                 THEN activeTab' = "agents" /\ renderedTab' = "agents"
                 ELSE activeTab' = activeTab /\ renderedTab' = renderedTab]_vars
    /\ [](\A key \in {"ingestion", "agents", "run", "dashboard"} :
             (key # activeTab \/ key # renderedTab) => ENABLED setActiveTab(key))

\* C20 witness: a text 201 characters longer than the initial one was pasted
\* and the agents tab is shown.
C20_Witness ==
    /\ Len(rendered.rawText) = Len(initialGuidanceText) + 201
    /\ budget.pastes < UploadBudget.pastes
    /\ uploads = <<>> /\ budget.files = UploadBudget.files
    /\ activeTab = "agents"
    /\ renderedTab = "agents"

\* C21: whenever isRunning is false, error is a non-empty message if the run
\* started last ended by a failed invocation, and null otherwise: initially
\* and when that run completed.  Only the start of a run and the failure of
\* an invocation change error.
C21_ErrorReflectsLastRun ==
    /\ [](~workspace.isRunning =>
             IF nRuns > 0 /\ runs[nRuns].pc = "failed"
             THEN workspace.error # Null /\ workspace.error # <<"">>
             ELSE /\ workspace.error = Null
                  /\ nRuns > 0 => runs[nRuns].pc = "done")
    /\ [][workspace'.error # workspace.error =>
             \/ nRuns' = nRuns + 1
             \/ \E r \in DOMAIN runs : Fails(r)]_vars

\* C21 witness: the second run of a session has ended by the failure of its
\* third invocation, isRunning is false and error holds the message.
C21_Witness ==
    /\ nRuns = 2
    /\ runs[2].pc = "failed"
    /\ runs[2].k = 3
    /\ ~workspace.isRunning
    /\ workspace.error = <<"API error">>

\* A step of handleRunChain: the click that starts a run, or a continuation
\* of a run after its awaited invocation returned or failed.
IsRunStep ==
    \/ nRuns' = nRuns + 1
    \/ \E r \in DOMAIN runs : runs[r].pc = "await" /\ runs'[r] # runs[r]

\* The part of a workspace a chain run has no business with.
NotOfTheRun(ws) ==
    [rawText |-> ws.rawText, chars |-> ws.metrics.chars,
     ocr_pages |-> ws.metrics.ocr_pages, agents |-> ws.agents,
     agentsRunConfig |-> ws.agentsRunConfig]

\* C22: the start of a run, every step of it and its end leave rawText,
\* metrics.chars, metrics.ocr_pages, agents and agentsRunConfig (and the
\* agent objects) as they are, in the state and in the rendered workspace:
\* what an ingestion or a paste did during the run is still there when the
\* run has ended.
C22_RunFrame ==
    [][IsRunStep =>
          /\ NotOfTheRun(workspace') = NotOfTheRun(workspace)
          /\ NotOfTheRun(rendered') = NotOfTheRun(rendered)
          /\ agentObjs' = agentObjs
          /\ DOMAIN workspace' = DOMAIN workspace
          /\ DOMAIN workspace'.metrics = DOMAIN workspace.metrics]_vars

\* C22 witness: a run started on the initial text has completed, its end not
\* yet rendered, and the workspace holds the text of a file ingested since
\* the render the run was started from, with its length.
C22_Witness ==
    \E r \in DOMAIN runs :
       /\ runs[r].pc = "done"
       /\ runs[r].baseInput = initialGuidanceText
       /\ rendered.isRunning
       /\ rendered.rawText = initialGuidanceText
       /\ workspace.rawText \in FileTexts
       /\ workspace.metrics.chars = Len(workspace.rawText)
       /\ workspace.metrics.agents_run = NumAgents

\* An edit of the run configuration is the only step that spends a config
\* edit.
IsRunConfigChange == budget'.config < budget.config

\* The fields of an agent definition, params keys as 'params.key'.
AgentFields ==
    {"name", "description", "model", "system_prompt",
     "params.temperature", "params.maxOutputTokens"}

\* C23: an edit of the run configuration changes one field (or one params
\* key) of one agent of agentsRunConfig: the array keeps its agents in
\* number and order, every other field of that agent and every field of the
\* other agents keep their values, and runLog, its entries, metrics,
\* rawText, isRunning and error are as before.
C23_RunConfigChangeFrame ==
    [][IsRunConfigChange =>
          LET config == workspace.agentsRunConfig IN
          /\ workspace'.agentsRunConfig = config
          /\ DOMAIN agentObjs' = DOMAIN agentObjs
          /\ \E index \in DOMAIN config, field \in AgentFields :
                /\ FieldValue(agentObjs'[config[index]], field)
                      # FieldValue(agentObjs[config[index]], field)
                /\ \A j \in DOMAIN config, other \in AgentFields :
                      (j # index \/ other # field) =>
                         FieldValue(agentObjs'[config[j]], other)
                            = FieldValue(agentObjs[config[j]], other)
          /\ workspace'.runLog = workspace.runLog
          /\ \A id \in Refs(workspace.runLog) : logEntries'[id] = logEntries[id]
          /\ workspace'.metrics = workspace.metrics
          /\ workspace'.rawText = workspace.rawText
          /\ workspace'.isRunning = workspace.isRunning
          /\ workspace'.error = workspace.error]_vars

\* C23 witness: the temperature of the third agent was edited while a run
\* was in progress with entries in its log; its maxOutputTokens is the
\* initial one.
C23_Witness ==
    /\ budget.config < RegistryBudget.config
    /\ agentObjs[workspace.agentsRunConfig[3]].params.temperature \in Temperatures
    /\ agentObjs[workspace.agentsRunConfig[3]].params.maxOutputTokens
          = initialAgents[3].params.maxOutputTokens
    /\ workspace.isRunning
    /\ Len(workspace.runLog) > 0

\* C24: every request a run makes carries the model, system prompt and
\* parameters its agent has at the moment of the request, whatever they were
\* when the run started; the agents a run invokes are those of the
\* agentsRunConfig of the render the run was started from, one request each,
\* in that order, and the array the run iterates never changes.
C24_RequestReadsCurrentConfig ==
    [][\A r \in DOMAIN runs :
          /\ (runs'[r].pc # "idle" /\ Len(runs'[r].calls) > Len(runs[r].calls))
                => LET n == Len(runs'[r].calls)
                       call == runs'[r].calls[n]
                       agent == agentObjs[runs'[r].agents[n]]
                   IN  /\ n = Len(runs[r].calls) + 1
                       /\ agentObjs' = agentObjs
                       /\ call.agentConfig = runs'[r].agents[n]
                       /\ call.model = agent.model
                       /\ call.systemInstruction = agent.system_prompt
                       /\ call.temperature = agent.params.temperature
                       /\ call.maxOutputTokens = agent.params.maxOutputTokens
          /\ (runs[r].pc = "idle" /\ runs'[r].pc # "idle")
                => runs'[r].agents = rendered.agentsRunConfig
          /\ runs[r].pc = "await"
                => /\ runs'[r].agents = runs[r].agents
                   /\ runs'[r].atStart = runs[r].atStart]_vars

\* C24 witness: the third agent was invoked with a model other than the one
\* it had when the run started, the first two with the models they had.
C24_Witness ==
    \E r \in DOMAIN runs :
       /\ Len(runs[r].calls) >= 3
       /\ runs[r].calls[1].model = runs[r].atStart[1].model
       /\ runs[r].calls[2].model = runs[r].atStart[2].model
       /\ runs[r].calls[3].model # runs[r].atStart[3].model
       /\ runs[r].calls[3].agentConfig = runs[r].agents[3]

====
